---------------------------- MODULE Spec2Model ----------------------------
(***************************************************************************)
(* SOILIE-3D: the triplet pipeline of collect_data.py / prepare_data.py.   *)
(*                                                                         *)
(*   Spec     the reconstruction solver, calculateCoords from the          *)
(*            permutation search on (prepare_data.py:290-416), started     *)
(*            with a relation table already loaded.                        *)
(*   SpecAgg  Frame.export, averageTriplets, gatherTriplets and the table  *)
(*            loading part of calculateCoords (prepare_data.py:258-286).   *)
(*   SpecFrame     calculateCentroids, getAngleDistCombos, drawPolygons    *)
(*                 of one Frame (collect_data.py:89-204).                  *)
(*   SpecSizes     approximateObjectSizes (prepare_data.py:141-247).       *)
(*   SpecCall      a whole call of calculateCoords, tables loaded first.   *)
(*   SpecRegistry  the object registry allObjects (collect_data.py).       *)
(*   SpecSearch    the permutation search under fair scheduling.           *)
(*                                                                         *)
(* Numbers.  Distances and angles are naturals on a unit grid.  The sums   *)
(* of averageTriplets are floating-point sums: FAdd rounds to MantissaBits *)
(* significant bits, ties to even, as binary64 does with 53.  The solver's *)
(* arithmetic on the small integral table values of this model is exact in *)
(* binary64 as well, so it is written with integer arithmetic; math.sqrt   *)
(* is rounded to the grid.  Angles in the solver are multiples of 90       *)
(* degrees, with cos and sin taken at their exact values.                  *)
(***************************************************************************)
EXTENDS Integers, Sequences, FiniteSets, TLC

VARIABLES
    \* ---- calculateCoords (prepare_data.py:250-416)
    objects,      \* the requested object names (argument)
    method,       \* 'sampling' | 'averaging' | anything else (argument)
    dictionary,   \* key -> comboData, built at lines 258-282
    pc,           \* position inside calculateCoords
    objMix,       \* the shuffled list of permutations (lines 290-291)
    i,            \* index of the attempt of the loop at line 293 (1-based)
    objs,         \* the permutation of the current attempt
    good,         \* the surviving triplets of the current attempt
    enoughData,   \* line 292 / 295 / 309
    d_ab,         \* the universal anchor distance (line 325)
    triplets,     \* the local placements (line 359)
    finalCoords,  \* the returned mapping (lines 377-416)
    j,            \* index into triplets of the merge loop at line 384
    outcome,      \* how the call ended: "running", "returned", "exit1", or the exception
    \* ---- the files under data/
    combos,       \* frame -> Frame.combos, as getAngleDistCombos left them
    files,        \* the per-scene triplet files: frame -> [columns, rows]
    tripletsCsv,  \* data/triplets.csv: <<>> while there is none, else <<its table>>
    tripletsAvg,  \* data/triplets_avg.pickle: <<>> while there is none, else <<its dict>>
    lastCall,     \* the aggregation function that ran last
    lastError,    \* the exception it ended with, or "none"
    \* ---- calculateCoords, beside the solver
    sizes,        \* the local sizes of line 318
    warnings,     \* the keys of the WARNING lines printed at line 302
    \* ---- one Frame of collect_data.py
    polygons,     \* the argument of calculateCentroids and drawPolygons
    origin,       \* where the sensor is in world coordinates (self.extrinsics)
    labels,       \* self.labels
    centroids,    \* self.centroids
    selfCombos,   \* self.combos
    errorLog,     \* the lines of data/<scene>/error.log
    \* ---- approximateObjectSizes
    pointDistances, \* object -> its point-to-centroid distances (sizes, lines 163-201)
    objectSizes,  \* data/object_sizes.csv: <<>> while there is none, else <<its rows>>
    \* ---- the object registry of collect_data.py
    allObjects,   \* the list allObjects (line 351), each Object1 a record
    sightings     \* history: the <<name, ID, location>> of the polygons met so far

solverVars == <<objects, method, dictionary, pc, objMix, i, objs, good, enoughData,
                d_ab, triplets, finalCoords, j, outcome>>
fileVars   == <<combos, files, tripletsCsv, tripletsAvg, lastCall, lastError>>
callVars   == <<sizes, warnings>>
frameVars  == <<polygons, origin, labels, centroids, selfCombos, errorLog>>
sizeVars   == <<pointDistances, objectSizes>>
registryVars == <<allObjects, sightings>>
vars       == <<solverVars, fileVars, callVars, frameVars, sizeVars, registryVars>>

-----------------------------------------------------------------------------
(* Generic helpers on sequences and numbers.                               *)

Range(s) == {s[k] : k \in DOMAIN s}

RECURSIVE Flatten(_)
Flatten(ss) == IF ss = <<>> THEN <<>> ELSE Head(ss) \o Flatten(Tail(ss))

RemoveAt(s, k) == SubSeq(s, 1, k - 1) \o SubSeq(s, k + 1, Len(s))

Reverse(s) == [k \in 1..Len(s) |-> s[Len(s) + 1 - k]]

Rotate(s, r) == [k \in 1..Len(s) |-> s[((k - 1 + r) % Len(s)) + 1]]

SetMax(S) == CHOOSE m \in S : \A n \in S : n <= m
SetMin(S) == CHOOSE m \in S : \A n \in S : m <= n


\* math.sqrt, rounded to the nearest grid value
Sqrt(n) ==
    LET r == CHOOSE q \in 0..n : q * q <= n /\ n < (q + 1) * (q + 1)
    IN  IF n - r * r > r THEN r + 1 ELSE r

\* math.cos / math.sin of math.radians(deg), deg a multiple of 90
Cos(deg) == CASE deg = 0 -> 1 [] deg = 90 -> 0 [] deg = 180 -> -1
Sin(deg) == CASE deg = 0 -> 0 [] deg = 90 -> 1 [] deg = 180 -> 0

\* sqrt(sum((P-Q)**2 ...)), lines 355-357
Dist(P, Q) == Sqrt((P[1] - Q[1]) ^ 2 + (P[2] - Q[2]) ^ 2 + (P[3] - Q[3]) ^ 2)

\* dict[key] = val on a mapping
Put(f, key, val) == [x \in DOMAIN f \cup {key} |-> IF x = key THEN val ELSE f[x]]

EmptyMap == [x \in {} |-> 0]

-----------------------------------------------------------------------------
(* calculateCoords: the permutation search, prepare_data.py:288-317.       *)
(* A triplet key 'A,B,C' is the tuple <<A, B, C>> of canonical names.      *)

\* itertools.permutations(objects, len(objects)), in its order (line 290)
RECURSIVE permutations(_)
permutations(s) ==
    IF s = <<>> THEN << <<>> >>
    ELSE Flatten([k \in 1..Len(s) |->
                    LET rest == permutations(RemoveAt(s, k))
                    IN  [m \in 1..Len(rest) |-> <<s[k]>> \o rest[m]]])

\* a shuffle that leaves its first permutation in the list a second time
shuffleRepeating(l) == {<<l[1]>> \o l}

\* random.shuffle(objMix) (line 291): the orders the shuffle may leave.  Every
\* order of a list of up to 6 permutations (3 objects); of a longer list every
\* rotation of the list and of its reverse, where each permutation can be the
\* first, the last or at any place, and each pair comes in both relative orders.
shuffle(l) ==
    IF Len(l) <= 6
    THEN Range(permutations(l))
    ELSE {Rotate(l, r) : r \in 0..(Len(l) - 1)} \cup {Rotate(Reverse(l), r) : r \in 0..(Len(l) - 1)}

\* the slice of line 297 taken one place early (objs[1:])
candidatesFromSecond(o) == [k \in 1..(Len(o) - 2) |-> <<o[1], o[2], o[k + 1]>>]

\* line 297: combos = [[objs[0],objs[1],x] for x in objs[2:]]
candidates(o) == [k \in 1..(Len(o) - 2) |-> <<o[1], o[2], o[k + 2]>>]

\* lines 298-304 with break in place of continue: the combos before the first
\* one that is missing
RECURSIVE survivingUntilMissing(_, _)
survivingUntilMissing(cs, dict) ==
    IF cs = <<>> \/ Head(cs) \notin DOMAIN dict THEN <<>>
    ELSE <<Head(cs)>> \o survivingUntilMissing(Tail(cs), dict)

\* lines 298-304: the combos whose key is in the dictionary, in order
surviving(cs, dict) == SelectSeq(cs, LAMBDA c : c \in DOMAIN dict)

\* the test of lines 306-310 satisfied by any surviving combo
coveredBySome(objList, gd) == gd # <<>>

\* lines 306-310: every requested object occurs somewhere in the good combos
covered(objList, gd) == \A k \in DOMAIN objList : objList[k] \in Range(Flatten(gd))

-----------------------------------------------------------------------------
(* calculateCoords: local placement of one triplet, prepare_data.py:319-359 *)
(* comboData is <<distAB, distAC, distAO, angleBAC, angleOAB, angleOAC,    *)
(* count>>; data[0] of the code is data[1] here.                           *)

\* lines 322-325: d_ab = max(all_ab_dists)
universalAB(dict, cs) == SetMax({dict[cs[k]][1] : k \in DOMAIN cs})

\* line 350 with the triplet's own distance, as line 334 would set it
placeBLocal(dab, data) == <<data[1], 0, 0>>

\* line 350: B = [d_ab,0,0], with the universal d_ab (line 334 is commented out)
placeB(dab, data) == <<dab, 0, 0>>

\* line 358: s = min([d_ab,d_ac,d_bc,d_ao,d_bo,d_co])
localScale(dists) == SetMin(dists)

\* lines 329-359 for one combo.  err is the exception the arithmetic raises
\* (line 345 divides by b, line 346 takes a square root); rad is the radicand of
\* line 346 and triplet the list appended at line 359.
localPlacement(combo, data, dab) ==
    LET d_ac == data[2]
        d_ao == data[3]
        a == d_ac * Cos(data[4])
        b == d_ac * Sin(data[4])
        x == d_ao * Cos(data[5])
    IN  IF b = 0
        THEN [err |-> "ZeroDivisionError", rad |-> 0, triplet |-> <<>>]
        ELSE LET y   == (d_ac * d_ao * Cos(data[6]) - a * x) \div b
                 rad == d_ao ^ 2 - x ^ 2 - y ^ 2
             IN  IF rad < 0
                 THEN [err |-> "ValueError", rad |-> rad, triplet |-> <<>>]
                 ELSE LET z == Sqrt(rad)
                          A == <<0, 0, 0>>
                          B == placeB(dab, data)
                          C == <<a, b, 0>>
                          O == <<x, y, z>>
                          s == localScale({dab, d_ac, Dist(B, C), d_ao, Dist(B, O), Dist(C, O)})
                      IN  [err |-> "none", rad |-> rad,
                           triplet |-> <<combo[1], combo[2], combo[3], A, B, C, O, s>>]

\* open(path, mode) on a file of data/ (<<>> while there is none, else
\* <<its content>>): the file afterwards.  Reading leaves it as it is; 'w' and
\* 'wb' leave an empty file.
truncating(file, mode) == << <<>> >>

opened(file, mode) == IF mode \in {"r", "rb"} THEN file ELSE << <<>> >>

\* loadObjectSizes, lines 33-42, on the rows below the header, each
\* <<object, diameter, count, confidence>>: sizes[item[0]] = float(item[1]),
\* a later row of an object replacing an earlier one
loadObjectSizes(rows) ==
    [n \in {rows[k][1] : k \in DOMAIN rows} |->
        rows[CHOOSE k \in DOMAIN rows :
                /\ rows[k][1] = n
                /\ \A m \in DOMAIN rows : rows[m][1] = n => m <= k][2]]

\* lines 327-359 with sizes standing where the object sizes would enter: each
\* combo placed by the table's distances and the universal d_ab alone
placementsSized(cs, dict, dab, sz) ==
    [k \in DOMAIN cs |->
        localPlacement(cs[k], dict[cs[k]],
                       IF cs[k][3] \in DOMAIN sz THEN dab + sz[cs[k][3]] ELSE dab)]

\* lines 327-359: the placement of every combo; sizes (line 318) is in scope
\* and is not read
placements(cs, dict, dab, sz) ==
    [k \in DOMAIN cs |-> localPlacement(cs[k], dict[cs[k]], dab)]

-----------------------------------------------------------------------------
(* calculateCoords: merging into the base frame, prepare_data.py:361-416   *)

\* lines 377-382: the entries taken from the first triplet
baseCoords(t) ==
    Put(Put(Put(Put(Put(EmptyMap, t[1], t[4]), t[2], t[5]), t[3], t[6]), "CAMERA", t[7]), "SCALE", t[8])

\* line 413 storing under the second name of the triplet
residualKeySecond(t) == t[2]

\* line 413: the key the residual point is stored under
residualKey(t) == t[3]

\* line 414 without the min: the base triplet's scale is kept
keepScale(s, current) == current

\* line 414: min(triplet[7],finalCoords['SCALE'])
updateScale(s, current) == IF s < current THEN s ELSE current

\* A point with rational coordinates is <<n, d>>: the point n / d.
pt(P) == <<P, 1>>

\* lines 372-375 and 385-388: pts = [A, B, O] of a triplet and the trivially
\* generated 4th point [sum(z[0])/3, sum(z[1])/3, sum(z[2])/3]
fourPoints(t) ==
    << pt(t[4]), pt(t[5]), pt(t[7]),
       << <<t[4][1] + t[5][1] + t[7][1], t[4][2] + t[5][2] + t[7][2], t[4][3] + t[5][3] + t[7][3]>>, 3 >> >>

\* line 405: isNear = lambda p1,p2: sum((x1 - x2)**2 ...) < 0.0001
isNear(p, q) ==
    LET dif(c) == p[1][c] * q[2] - q[1][c] * p[2]
    IN  10000 * (dif(1) ^ 2 + dif(2) ^ 2 + dif(3) ^ 2) < (p[2] * q[2]) ^ 2

\* lines 391-403: coordsNew = transform(coords), the five points A, B, O, 4th
\* point and C of triplet t carried into the frame of the base triplet by the
\* solution of np.linalg.lstsq(curr, base).  The 4th point is the mean of A, B
\* and O, so curr never has rank 4 and lstsq returns the solution of least
\* norm, which carries a point as it carries its projection on the plane (or
\* line) of A, B and O.  A = (0,0,0) and B = (d_ab,0,0) with d_ab > 0 in both
\* triplets.
\*   A, B, O not on a line: the four points go to the four base points, and C
\*     to A' + (a - beta x)/d_ab (B' - A') + beta (O' - A'), beta = b y / (y^2 + z^2).
\*   A, B, O on a line (y = z = 0): the regression line of the base points
\*     over the abscissae of the four points, C taken at its abscissa a.
transformed(base, t) ==
    LET bp == fourPoints(base)
        O  == t[7]
        C  == t[6]
        Ob == base[7]
    IN  IF O[2] # 0 \/ O[3] # 0
        THEN LET den == O[2] ^ 2 + O[3] ^ 2
                 by  == C[2] * O[2]
             IN  << bp[1], bp[2], bp[3], bp[4],
                    << <<C[1] * den + by * (Ob[1] - O[1]), by * Ob[2], by * Ob[3]>>, den >> >>
        ELSE LET T   == <<0, 3 * t[5][1], 3 * O[1], t[5][1] + O[1]>>
                 Y(c) == <<0, 3 * base[5][c], 3 * Ob[c], bp[4][1][c]>>
                 sT  == T[1] + T[2] + T[3] + T[4]
                 sY(c) == Y(c)[1] + Y(c)[2] + Y(c)[3] + Y(c)[4]
                 Sxx == 4 * (T[1] ^ 2 + T[2] ^ 2 + T[3] ^ 2 + T[4] ^ 2) - sT ^ 2
                 Sxy(c) == 4 * (T[1] * Y(c)[1] + T[2] * Y(c)[2] + T[3] * Y(c)[3] + T[4] * Y(c)[4]) - sT * sY(c)
                 at(tau) == << [c \in 1..3 |-> sY(c) * Sxx + Sxy(c) * (4 * tau - sT)], 12 * Sxx >>
             IN  << at(T[1]), at(T[2]), at(T[3]), at(T[4]), at(3 * C[1]) >>

\* lines 406-411: the places (1..5 = A, B, camera, 4th point, C) of the
\* transformed points that isNear finds close to a base point
corresp(base, t) ==
    LET new == transformed(base, t)
        bp  == fourPoints(base)
    IN  {k \in 1..5 : \E m \in 1..4 : isNear(new[k], bp[m])}

\* line 412: the stored point is the first transformed point outside corresp
\* (equal points are near the same base points, so the test by value of
\* 'x not in corresp' is the test by place), 0 when there is none (IndexError).
residual(near) == IF near = 1..5 THEN 0 ELSE SetMin((1..5) \ near)

-----------------------------------------------------------------------------
(* The calls of calculateCoords that Spec explores.                        *)

ObjectLists == {<<"a", "b">>, <<"a", "b", "c">>, <<"a", "b", "c", "d">>}

KeyPool == {<<"a", "b", "c">>, <<"a", "b", "d">>, <<"b", "a", "c">>}

\* <<distAB, distAC, distAO, angleBAC, angleOAB, angleOAC, count>>
EntryPool ==
    { <<4, 3, 2, 90, 90, 90, 1>>,    \* camera above A
      <<1, 4, 5, 90, 90, 90, 1>>,    \* the same shape, other distances
      <<2, 1, 4, 90, 90, 0, 3>>,     \* camera on the line AC
      <<3, 2, 1, 0, 90, 90, 2>>,     \* angleBAC = 0
      <<5, 2, 3, 90, 0, 0, 1>> }     \* angles that no camera position satisfies

Dictionaries == UNION {[P -> EntryPool] : P \in SUBSET KeyPool}

\* a data/object_sizes.csv as approximateObjectSizes writes it: the rows
\* <<object, diameter, count, confidence>>, the confidence a quotient <<p, q>>
SizeTables ==
    { << >>,
      << <<"a", 4, 2, <<8, 8>> >>, <<"c", 8, 1, <<8, 16>> >> >>,
      << <<"c", 12, 1, <<12, 12>> >>, <<"d", 4, 1, <<12, 4>> >> >> }

NoRegistry ==
    /\ allObjects = <<>>
    /\ sightings = <<>>

NoCall ==
    /\ sizes = EmptyMap
    /\ warnings = <<>>

NoFrame ==
    /\ polygons = EmptyMap
    /\ origin = <<0, 0, 0>>
    /\ labels = EmptyMap
    /\ centroids = EmptyMap
    /\ selfCombos = <<>>
    /\ errorLog = <<>>

NoFiles ==
    /\ combos = EmptyMap
    /\ files = EmptyMap
    /\ tripletsCsv = <<>>
    /\ tripletsAvg = <<>>
    /\ lastCall = "none"
    /\ lastError = "none"

SolverStart ==
    /\ objMix = <<>>
    /\ i = 0
    /\ objs = <<>>
    /\ good = <<>>
    /\ enoughData = TRUE
    /\ d_ab = 0
    /\ triplets = <<>>
    /\ finalCoords = EmptyMap
    /\ j = 0
    /\ outcome = "running"

\* calculateCoords at line 288, its table loaded
Init ==
    /\ objects \in ObjectLists
    /\ method = "averaging"
    /\ dictionary \in Dictionaries
    /\ pc = "permute"
    /\ SolverStart
    /\ NoFiles
    /\ NoCall
    /\ NoFrame
    /\ pointDistances = EmptyMap
    /\ NoRegistry
    /\ objectSizes = << << <<"a", 4, 2, <<8, 8>> >>, <<"c", 8, 1, <<8, 16>> >> >> >>

\* lines 290-292
Shuffle ==
    /\ pc = "permute"
    /\ objMix' \in shuffle(permutations(objects))
    /\ enoughData' = TRUE
    /\ i' = 1
    /\ pc' = "loop"
    /\ UNCHANGED <<objects, method, dictionary, objs, good, d_ab, triplets, finalCoords,
                   j, outcome, fileVars,
                   callVars, frameVars, sizeVars, registryVars>>

\* lines 293-312: one attempt of the loop; it ends the loop on success (break)
\* or after the last permutation
Attempt ==
    /\ pc = "loop"
    /\ i <= Len(objMix)
    /\ LET o  == objMix[i]
           g  == surviving(candidates(o), dictionary)
           ok == covered(objects, g)
       IN  /\ objs' = o
           /\ good' = g
           /\ enoughData' = ok
           /\ i' = IF ok THEN i ELSE i + 1
           /\ pc' = IF ok \/ i = Len(objMix) THEN "after" ELSE "loop"
           /\ warnings' = warnings \o SelectSeq(candidates(o), LAMBDA c : c \notin DOMAIN dictionary)
    /\ UNCHANGED <<objects, method, dictionary, objMix, d_ab, triplets, finalCoords,
                   j, outcome, fileVars, sizes, frameVars, sizeVars, registryVars>>

\* line 314: sys.exit(1)
Exit ==
    /\ pc = "after"
    /\ ~enoughData
    /\ outcome' = "exit1"
    /\ pc' = "done"
    /\ UNCHANGED <<objects, method, dictionary, objMix, i, objs, good, enoughData, d_ab,
                   triplets, finalCoords, j, fileVars,
                   callVars, frameVars, sizeVars, registryVars>>

\* lines 316-359: combos = good, the size table read (line 318; a missing
\* file ends the call), the universal d_ab, the placement of every combo.  The first combo whose arithmetic raises ends the call.  A radicand
\* that is zero in exact arithmetic may come out below zero in floating point
\* (ValueError) or not: zeroNeg holds the combos where it does.
SetUp ==
    /\ pc = "after"
    /\ enoughData
    /\ objectSizes' = opened(objectSizes, "r")
    /\ IF objectSizes = <<>>
       THEN /\ outcome' = "FileNotFoundError"
            /\ pc' = "done"
            /\ UNCHANGED <<sizes, d_ab, triplets>>
       ELSE LET sz  == loadObjectSizes(objectSizes[1])
                dab == universalAB(dictionary, good)
                pl  == placements(good, dictionary, dab, sz)
            IN  \E zeroNeg \in SUBSET {k \in 1..Len(good) : pl[k].err = "none" /\ pl[k].rad = 0} :
                    LET errAt(k) == IF pl[k].err # "none" THEN pl[k].err
                                    ELSE IF k \in zeroNeg THEN "ValueError" ELSE "none"
                        bad == {k \in 1..Len(good) : errAt(k) # "none"}
                        n   == IF bad = {} THEN Len(good) ELSE SetMin(bad) - 1
                    IN  /\ sizes' = sz
                        /\ d_ab' = dab
                        /\ triplets' = [k \in 1..n |-> pl[k].triplet]
                        /\ outcome' = IF bad = {} THEN outcome ELSE errAt(SetMin(bad))
                        /\ pc' = IF bad = {} THEN "base" ELSE "done"
    /\ UNCHANGED <<objects, method, dictionary, objMix, i, objs, good, enoughData,
                   finalCoords, j, fileVars, warnings, frameVars, pointDistances,
                   registryVars>>

\* lines 372-382: the base frame and the entries of the first triplet
Base ==
    /\ pc = "base"
    /\ finalCoords' = baseCoords(triplets[1])
    /\ j' = 2
    /\ pc' = "merge"
    /\ UNCHANGED <<objects, method, dictionary, objMix, i, objs, good, enoughData, d_ab,
                   triplets, outcome, fileVars,
                   callVars, frameVars, sizeVars, registryVars>>

\* lines 384-414 for one triplet: the point stored is coordsNew[k], the first
\* transformed point that is not close to a base point.
MergeTriplet ==
    /\ pc = "merge"
    /\ j <= Len(triplets)
    /\ LET t == triplets[j]
           k == residual(corresp(triplets[1], t))
       IN  IF k = 0
           THEN /\ outcome' = "IndexError"
                /\ pc' = "done"
                /\ UNCHANGED <<finalCoords, j>>
           ELSE /\ finalCoords' =
                      [Put(finalCoords, residualKey(t), [coordsNew |-> k, triplet |-> j])
                          EXCEPT !["SCALE"] = updateScale(t[8], finalCoords["SCALE"])]
                /\ j' = j + 1
                /\ UNCHANGED <<outcome, pc>>
    /\ UNCHANGED <<objects, method, dictionary, objMix, i, objs, good, enoughData, d_ab,
                   triplets, fileVars,
                   callVars, frameVars, sizeVars, registryVars>>

\* line 416
Return ==
    /\ pc = "merge"
    /\ j > Len(triplets)
    /\ outcome' = "returned"
    /\ pc' = "done"
    /\ UNCHANGED <<objects, method, dictionary, objMix, i, objs, good, enoughData, d_ab,
                   triplets, finalCoords, j, fileVars,
                   callVars, frameVars, sizeVars, registryVars>>

Next == Shuffle \/ Attempt \/ Exit \/ SetUp \/ Base \/ MergeTriplet \/ Return

Spec == Init /\ [][Next]_vars

-----------------------------------------------------------------------------
(* Claims about the permutation search and the returned mapping (Spec).    *)

\* every arrangement of the requested objects
Arrangements(objList) ==
    {p \in [1..Len(objList) -> Range(objList)] : \A m, n \in 1..Len(objList) : m # n => p[m] # p[n]}

\* every requested object other than the anchors p[1], p[2] is the third member
\* of one of the triplets ts
ThirdMembersCover(p, ts) ==
    \A x \in Range(p) \ {p[1], p[2]} : \E k \in DOMAIN ts : ts[k] = <<p[1], p[2], x>>

\* the arrangement p has full coverage in the table
Covering(p, dict) == \A k \in 3..Len(p) : <<p[1], p[2], p[k]>> \in DOMAIN dict

HasCover == \E p \in Arrangements(objects) : Covering(p, dictionary)

\* C1: when no permutation of the requested objects has full coverage,
\* calculateCoords makes an attempt for every permutation, then ends with
\* sys.exit(1); it never reaches the placement, never fills the mapping and
\* never returns.
C1_NoCoverIsFatal ==
    ~HasCover =>
        /\ pc \in {"permute", "loop", "after", "done"}
        /\ finalCoords = EmptyMap
        /\ outcome \in {"running", "exit1"}
        /\ pc = "loop" => i <= Len(objMix) /\ (objs # <<>> => ~enoughData)
        /\ pc = "after" => ~enoughData
        /\ pc \in {"after", "done"} =>
              /\ i = Len(objMix) + 1
              /\ Range(objMix) = Arrangements(objects)
        /\ pc = "done" => outcome = "exit1"

\* C1 witness: four requested objects, the table lacks the entry of d under
\* the only anchor pair that covers c, and the call has ended with exit 1.
C1_Witness ==
    /\ Len(objects) = 4
    /\ <<"a", "b", "c">> \in DOMAIN dictionary
    /\ <<"a", "b", "d">> \notin DOMAIN dictionary
    /\ outcome = "exit1"

\* C2: for 3 or more distinct requested objects, the attempt just made is
\* accepted exactly when every object other than its two anchors is the third
\* member of a surviving triplet; a discarded attempt moves on to the next
\* permutation; and when the loop is over the search has succeeded exactly
\* when some permutation has full coverage, whatever the shuffle left.
C2_AcceptIffCovered ==
    (Len(objects) >= 3 /\ pc \in {"loop", "after"} /\ objs # <<>>) =>
        /\ enoughData <=> ThirdMembersCover(objs, good)
        /\ enoughData => pc = "after" /\ objs = objMix[i]
        /\ ~enoughData => objs = objMix[i - 1]
        /\ pc = "after" => (enoughData <=> HasCover)

\* C2 witness: four objects, the accepted attempt is not the first one.
C2_Witness ==
    /\ Len(objects) = 4
    /\ pc = "after"
    /\ enoughData
    /\ i > 2

\* C3: when calculateCoords returns, the keys of the mapping are exactly the
\* requested names plus CAMERA and SCALE.
C3_ResultKeys ==
    outcome = "returned" =>
        DOMAIN finalCoords = Range(objects) \cup {"CAMERA", "SCALE"}

\* C3 witness: a returned mapping of four objects, two triplets merged.
C3_Witness ==
    /\ outcome = "returned"
    /\ Len(objects) = 4
    /\ Len(triplets) = 2

\* C4: the SCALE entry of the returned mapping is the minimum of the local
\* scale factors of all placed triplets, the base triplet included.
C4_ScaleIsMin ==
    outcome = "returned" =>
        finalCoords["SCALE"] = SetMin({triplets[k][8] : k \in DOMAIN triplets})

\* C4 witness: two triplets are merged and the second one has the smaller
\* local scale factor.
C4_Witness ==
    /\ outcome = "returned"
    /\ Len(triplets) = 2
    /\ triplets[2][8] < triplets[1][8]

\* C5: every placed triplet has B at (d_ab, 0, 0) for the one value d_ab, the
\* maximum distAB over the table entries of the surviving triplets.
C5_UniversalAB ==
    pc \in {"base", "merge", "done"} /\ outcome # "exit1" =>
        /\ d_ab = SetMax({dictionary[good[k]][1] : k \in DOMAIN good})
        /\ \A k \in DOMAIN triplets : triplets[k][5] = <<d_ab, 0, 0>>

\* C5 witness: two placed triplets whose table entries give different distAB,
\* the first one below the maximum.
C5_Witness ==
    /\ Len(triplets) = 2
    /\ dictionary[good[1]][1] < dictionary[good[2]][1]
    /\ triplets[1][5] = <<dictionary[good[2]][1], 0, 0>>

-----------------------------------------------------------------------------
(* Floating-point sums and quotients (averageTriplets, lines 123-128).     *)

MantissaBits == 4

RECURSIVE BitLen(_)
BitLen(n) == IF n = 0 THEN 0 ELSE 1 + BitLen(n \div 2)

\* the distance between neighbouring representable values at the size of n
Spacing(n) == IF BitLen(n) <= MantissaBits THEN 1 ELSE 2 ^ (BitLen(n) - MantissaBits)

\* n/d rounded to an integer, ties to even
RoundHalfEven(n, d) ==
    LET q == n \div d
        r == n % d
    IN  IF 2 * r > d \/ (2 * r = d /\ q % 2 = 1) THEN q + 1 ELSE q

\* the representable value nearest to n/d
Fl(n, d) == LET sp == Spacing(n \div d) IN RoundHalfEven(n, d * sp) * sp

FAdd(x, y) == Fl(x + y, 1)
FDiv(x, c) == Fl(x, c)

\* sum(values): 0 + v1 + v2 + ..., left to right
RECURSIVE FSumFrom(_, _)
FSumFrom(acc, values) ==
    IF values = <<>> THEN acc ELSE FSumFrom(FAdd(acc, Head(values)), Tail(values))

FSum(values) == FSumFrom(0, values)

-----------------------------------------------------------------------------
(* The per-scene triplet files.  A file is [columns, rows]; a column name  *)
(* is [lead, name], lead the number of blanks before the name, which       *)
(* pandas.read_csv keeps.  An object name in these files is the sequence   *)
(* of its parts between underscores: 'chair_1', which getAngleDistCombos   *)
(* writes for the label chair with identifier 1 (lines 165-170), is        *)
(* <<"chair", "1">>, and 'tv_stand_1' is <<"tv", "stand", "1">>.  (In Spec *)
(* the names are whole strings: they are never split there.)  str() of a   *)
(* number and its parse give the number back.                              *)

Frames == {1, 2}

\* collect_data.py:284, the header line as written
exportHeader ==
    << [lead |-> 0, name |-> "objectA"],    [lead |-> 1, name |-> "objectB"],
       [lead |-> 1, name |-> "objectC"],    [lead |-> 1, name |-> "distanceAB"],
       [lead |-> 1, name |-> "distanceAC"], [lead |-> 0, name |-> "distanceAO"],
       [lead |-> 1, name |-> "angleOAB"],   [lead |-> 1, name |-> "angleOAC"],
       [lead |-> 1, name |-> "angleBAC"] >>

\* collect_data.py:283-288: the header, then ','.join(combo) for every combo
exportCsv(frameCombos) == [columns |-> exportHeader, rows |-> frameCombos]

\* prepare_data.py:90, c.strip()
strip(c) == [lead |-> 0, name |-> c.name]

\* df[name] / row[name]: the place of the column called name, 0 for a KeyError
Col(columns, name) ==
    IF \E k \in DOMAIN columns : columns[k] = [lead |-> 0, name |-> name]
    THEN CHOOSE k \in DOMAIN columns : columns[k] = [lead |-> 0, name |-> name]
    ELSE 0

cell(columns, row, name) == row[Col(columns, name)]

\* x.rsplit('_',1)[0]: the name without its last part, if it has two or more
rsplit1(nm) == IF Len(nm) > 1 THEN SubSeq(nm, 1, Len(nm) - 1) ELSE nm

\* os.walk + sorted(files): the per-scene files in path order
RECURSIVE sortedFiles(_)
sortedFiles(fs) ==
    IF fs = {} THEN <<>> ELSE <<SetMin(fs)>> \o sortedFiles(fs \ {SetMin(fs)})

-----------------------------------------------------------------------------
(* averageTriplets, prepare_data.py:72-138.  The dict averages is          *)
(* [order, at]: its keys in insertion order, and key -> the seven-element  *)
(* list of line 105.  A key 'A,B,C' is the tuple <<A, B, C>>.              *)

\* lines 94-97
averageKey(columns, row) ==
    << rsplit1(cell(columns, row, "objectA")),
       rsplit1(cell(columns, row, "objectB")),
       rsplit1(cell(columns, row, "objectC")) >>

\* lines 98-103 reading each variable from the column of its own name
averageColumnsByName ==
    <<"distanceAB", "distanceAC", "distanceAO", "angleBAC", "angleOAB", "angleOAC">>

\* lines 98-103: the columns read into distAB, distAC, distAO, angBAC, angOAB, angOAC
averageColumns ==
    <<"distanceAB", "distanceAC", "distanceAO", "angleOAB", "angleOAC", "angleBAC">>

\* lines 104-113
addRow(av, key, vals) ==
    IF key \notin DOMAIN av.at
    THEN [order |-> Append(av.order, key),
          at    |-> Put(av.at, key, [k \in 1..7 |-> IF k = 7 THEN 1 ELSE <<vals[k]>>])]
    ELSE [order |-> av.order,
          at    |-> [av.at EXCEPT ![key] =
                        [k \in 1..7 |-> IF k = 7 THEN @[7] + 1 ELSE Append(@[k], vals[k])]]]

\* lines 93-113 over the rows of one file
RECURSIVE addRows(_, _, _)
addRows(av, columns, rows) ==
    IF rows = <<>> THEN av
    ELSE addRows(addRow(av, averageKey(columns, Head(rows)),
                        [k \in 1..6 |-> cell(columns, Head(rows), averageColumns[k])]),
                 columns, Tail(rows))

\* lines 87-91: read_csv, the column names stripped, the file written back
normalized(file) ==
    [columns |-> [k \in DOMAIN file.columns |-> strip(file.columns[k])], rows |-> file.rows]

\* lines 83-113 over the files in sorted order
RECURSIVE addFiles(_, _, _)
addFiles(av, fs, order) ==
    IF order = <<>> THEN av
    ELSE LET df == normalized(fs[Head(order)])
         IN  addFiles(addRows(av, df.columns, df.rows), fs, Tail(order))

\* lines 123-128: sum(values[n])/values[6]
mean(values, count) == FDiv(FSum(values), count)

\* lines 115-129: the dict triplets of column lists
averagedTable(av) ==
    LET n == Len(av.order)
        v(k) == av.at[av.order[k]]
    IN  [objectA    |-> [k \in 1..n |-> av.order[k][1]],
         objectB    |-> [k \in 1..n |-> av.order[k][2]],
         objectC    |-> [k \in 1..n |-> av.order[k][3]],
         distanceAB |-> [k \in 1..n |-> mean(v(k)[1], v(k)[7])],
         distanceAC |-> [k \in 1..n |-> mean(v(k)[2], v(k)[7])],
         distanceAO |-> [k \in 1..n |-> mean(v(k)[3], v(k)[7])],
         angleBAC   |-> [k \in 1..n |-> mean(v(k)[4], v(k)[7])],
         angleOAB   |-> [k \in 1..n |-> mean(v(k)[5], v(k)[7])],
         angleOAC   |-> [k \in 1..n |-> mean(v(k)[6], v(k)[7])],
         count      |-> [k \in 1..n |-> v(k)[7]]]

\* the table averageTriplets computes from the per-scene files fs
averageOf(fs) ==
    averagedTable(addFiles([order |-> <<>>, at |-> EmptyMap], fs, sortedFiles(DOMAIN fs)))

-----------------------------------------------------------------------------
(* gatherTriplets, prepare_data.py:45-69                                   *)

\* lines 62-64 need the columns objectA, objectB, objectC (KeyError otherwise)
gatherable(columns) ==
    /\ Col(columns, "objectA") # 0
    /\ Col(columns, "objectB") # 0
    /\ Col(columns, "objectC") # 0

\* lines 62-64 left out: the names stay as the frame files have them
gatherRowUnstripped(columns, row) == row

\* lines 62-64: the disambiguator stripped from the three names of a row
gatherRow(columns, row) ==
    [k \in DOMAIN row |->
        IF k \in {Col(columns, "objectA"), Col(columns, "objectB"), Col(columns, "objectC")}
        THEN rsplit1(row[k]) ELSE row[k]]

\* lines 59-65: the frames concatenated
RECURSIVE gatherFiles(_, _)
gatherFiles(fs, order) ==
    IF order = <<>> THEN <<>>
    ELSE LET df == fs[Head(order)]
         IN  [k \in DOMAIN df.rows |-> gatherRow(df.columns, df.rows[k])]
                 \o gatherFiles(fs, Tail(order))

\* the order of the strings that are object names in data/triplets.csv
NameOrder == << <<"a">>, <<"a", "1">>, <<"a", "2">>, <<"b">>, <<"b", "1">>, <<"c">>,
                <<"c", "1">>, <<"tv", "stand">>, <<"tv", "stand", "1">> >>
NameRank(nm) ==
    IF \E k \in DOMAIN NameOrder : NameOrder[k] = nm
    THEN CHOOSE k \in DOMAIN NameOrder : NameOrder[k] = nm
    ELSE 0

\* row r comes before row t in sort_values(by=list(columns))
RECURSIVE rowBefore(_, _, _)
rowBefore(r, t, k) ==
    IF k > Len(r) THEN FALSE
    ELSE LET x == IF k <= 3 THEN NameRank(r[k]) ELSE r[k]
             y == IF k <= 3 THEN NameRank(t[k]) ELSE t[k]
         IN  IF x = y THEN rowBefore(r, t, k + 1) ELSE x < y

RECURSIVE sortValues(_)
sortValues(rows) ==
    IF rows = <<>> THEN <<>>
    ELSE LET rest == sortValues(Tail(rows))
             n    == Cardinality({k \in DOMAIN rest : rowBefore(rest[k], Head(rows), 1)})
         IN  SubSeq(rest, 1, n) \o <<Head(rows)>> \o SubSeq(rest, n + 1, Len(rest))

\* line 68: data/triplets.csv
gatherOf(fs) ==
    LET order == sortedFiles(DOMAIN fs)
    IN  [columns |-> fs[Head(order)].columns, rows |-> sortValues(gatherFiles(fs, order))]

-----------------------------------------------------------------------------
(* calculateCoords: loading the relation table, prepare_data.py:258-286    *)

\* lines 262-268: the dictionary from the pickled column lists
averagingTable(pickleData) ==
    LET n == Len(pickleData.objectA)
        key(k) == <<pickleData.objectA[k], pickleData.objectB[k], pickleData.objectC[k]>>
        last(ky) == SetMax({k \in 1..n : key(k) = ky})
    IN  [ky \in {key(k) : k \in 1..n} |->
            << pickleData.distanceAB[last(ky)], pickleData.distanceAC[last(ky)],
               pickleData.distanceAO[last(ky)], pickleData.angleBAC[last(ky)],
               pickleData.angleOAB[last(ky)],   pickleData.angleOAC[last(ky)],
               pickleData.count[last(ky)] >>]

\* lines 280-281: the columns read into comboData
samplingColumns ==
    <<"distanceAB", "distanceAC", "distanceAO", "angleBAC", "angleOAB", "angleOAC">>

\* lines 277-279: the key of a row of data/triplets.csv
samplingKey(columns, row) ==
    <<cell(columns, row, "objectA"), cell(columns, row, "objectB"), cell(columns, row, "objectC")>>

\* lines 273-274: sample(frac=1) and drop_duplicates(keep='first') leave, for
\* every key, one of its rows: the choices of row numbers
samples(df) ==
    LET keys == {samplingKey(df.columns, df.rows[k]) : k \in DOMAIN df.rows}
    IN  {pick \in [keys -> DOMAIN df.rows] :
            \A ky \in keys : samplingKey(df.columns, df.rows[pick[ky]]) = ky}

\* lines 275-282: the dictionary from the rows kept
samplingTable(df, pick) ==
    [ky \in DOMAIN pick |->
        [k \in 1..7 |-> IF k = 7 THEN 1 ELSE cell(df.columns, df.rows[pick[ky]], samplingColumns[k])]]

-----------------------------------------------------------------------------
(* The runs SpecAgg explores: collect_data.py exports every frame, then    *)
(* averageTriplets, gatherTriplets and calculateCoords are called in any   *)
(* order, any number of times.                                             *)

MaxRows == 2

\* Frame.combos entries: <<nameA, nameB, nameC, distAB, distAC, distAO,
\*                         angleBAC, angleOAB, angleOAC>>, collect_data.py:171-172
RecordPool ==
    { << <<"a", "1">>, <<"b", "1">>, <<"c", "1">>, 1, 2, 3, 10, 20, 30 >>,
      << <<"a", "2">>, <<"b", "1">>, <<"c", "1">>, 16, 2, 5, 40, 20, 60 >>,
      << <<"a", "1">>, <<"b", "1">>, <<"tv", "stand", "1">>, 4, 4, 4, 80, 80, 80 >> }

Corpora == [Frames -> UNION {[1..n -> RecordPool] : n \in 0..MaxRows}]

InitAgg ==
    /\ combos \in Corpora
    /\ files = EmptyMap
    /\ tripletsCsv = <<>>
    /\ tripletsAvg = <<>>
    /\ lastCall = "none"
    /\ lastError = "none"
    /\ objects = <<"a", "b", "c">>
    /\ method = "none"
    /\ dictionary = EmptyMap
    /\ pc = "idle"
    /\ SolverStart
    /\ NoCall
    /\ NoFrame
    /\ pointDistances = EmptyMap
    /\ NoRegistry
    /\ objectSizes = <<>>

\* Frame.export, collect_data.py:283-288
Export(f) ==
    /\ f \notin DOMAIN files
    /\ files' = Put(files, f, exportCsv(combos[f]))
    /\ UNCHANGED <<combos, tripletsCsv, tripletsAvg, lastCall, lastError, solverVars,
                   callVars, frameVars, sizeVars, registryVars>>

\* averageTriplets, prepare_data.py:72-138
AverageTriplets ==
    /\ DOMAIN files = Frames
    /\ files' = [f \in DOMAIN files |-> normalized(files[f])]
    /\ tripletsAvg' = <<averageOf(files)>>
    /\ lastCall' = "averageTriplets"
    /\ lastError' = "none"
    /\ UNCHANGED <<combos, tripletsCsv, solverVars, callVars, frameVars, sizeVars, registryVars>>

\* gatherTriplets, prepare_data.py:45-69
GatherTriplets ==
    /\ DOMAIN files = Frames
    /\ lastCall' = "gatherTriplets"
    /\ IF \A f \in DOMAIN files : gatherable(files[f].columns)
       THEN /\ tripletsCsv' = <<gatherOf(files)>>
            /\ lastError' = "none"
       ELSE /\ lastError' = "KeyError"
            /\ UNCHANGED tripletsCsv
    /\ UNCHANGED <<combos, files, tripletsAvg, solverVars, callVars, frameVars, sizeVars, registryVars>>

\* calculateCoords(objects, 'averaging') up to line 288
LoadAveraging ==
    /\ DOMAIN files = Frames
    /\ method' = "averaging"
    /\ tripletsAvg' = opened(tripletsAvg, "rb")
    /\ IF tripletsAvg = <<>>
       THEN /\ outcome' = "FileNotFoundError"
            /\ pc' = "done"
            /\ dictionary' = EmptyMap
       ELSE /\ outcome' = "running"
            /\ pc' = "permute"
            /\ dictionary' = averagingTable(tripletsAvg[1])
    /\ UNCHANGED <<objects, objMix, i, objs, good, enoughData, d_ab, triplets, finalCoords,
                   j, combos, files, tripletsCsv, lastCall, lastError,
                   callVars, frameVars, sizeVars, registryVars>>

\* calculateCoords(objects, 'sampling') up to line 288
LoadSampling ==
    /\ DOMAIN files = Frames
    /\ method' = "sampling"
    /\ tripletsCsv' = opened(tripletsCsv, "r")
    /\ IF tripletsCsv = <<>>
       THEN /\ outcome' = "FileNotFoundError"
            /\ pc' = "done"
            /\ dictionary' = EmptyMap
       ELSE /\ outcome' = "running"
            /\ pc' = "permute"
            /\ \E pick \in samples(tripletsCsv[1]) :
                   dictionary' = samplingTable(tripletsCsv[1], pick)
    /\ UNCHANGED <<objects, objMix, i, objs, good, enoughData, d_ab, triplets, finalCoords,
                   j, combos, files, tripletsAvg, lastCall, lastError,
                   callVars, frameVars, sizeVars, registryVars>>

\* calculateCoords with any other method: lines 284-286, return {}
LoadOther ==
    /\ DOMAIN files = Frames
    /\ method' = "other"
    /\ outcome' = "returned"
    /\ pc' = "done"
    /\ dictionary' = EmptyMap
    /\ UNCHANGED <<objects, objMix, i, objs, good, enoughData, d_ab, triplets, finalCoords,
                   j, fileVars, callVars, frameVars, sizeVars, registryVars>>

NextAgg ==
    \/ \E f \in Frames : Export(f)
    \/ AverageTriplets
    \/ GatherTriplets
    \/ LoadAveraging
    \/ LoadSampling
    \/ LoadOther

SpecAgg == InitAgg /\ [][NextAgg]_vars

-----------------------------------------------------------------------------
(* Claims about the aggregation (SpecAgg).                                 *)

\* every record getAngleDistCombos produced, frame after frame
CorpusRecords == Flatten([k \in 1..Cardinality(Frames) |-> combos[sortedFiles(Frames)[k]]])

\* the canonical key of a record: each name without its trailing disambiguator
CanonKey(r) ==
    << SubSeq(r[1], 1, Len(r[1]) - 1), SubSeq(r[2], 1, Len(r[2]) - 1),
       SubSeq(r[3], 1, Len(r[3]) - 1) >>

\* the quantity of that name in a record of Frame.combos (collect_data.py:171-172)
Quantity(r, name) ==
    CASE name = "objectA" -> r[1]
      [] name = "objectB" -> r[2]
      [] name = "objectC" -> r[3]
      [] name = "distanceAB" -> r[4]
      [] name = "distanceAC" -> r[5]
      [] name = "distanceAO" -> r[6]
      [] name = "angleBAC" -> r[7]
      [] name = "angleOAB" -> r[8]
      [] name = "angleOAC" -> r[9]

SixFields == <<"distanceAB", "distanceAC", "distanceAO", "angleBAC", "angleOAB", "angleOAC">>

\* the rows of an averaged table, as a set
TableEntries(t) ==
    { [key |-> <<t.objectA[k], t.objectB[k], t.objectC[k]>>,
       fields |-> <<t.distanceAB[k], t.distanceAC[k], t.distanceAO[k],
                    t.angleBAC[k], t.angleOAB[k], t.angleOAC[k]>>,
       count |-> t.count[k]] : k \in DOMAIN t.objectA }

\* C6: after averageTriplets the table has one entry per distinct canonical
\* key of the corpus; its count is the number of records of that key and each
\* of its six fields is the mean, over those records in file order, of the
\* quantity of that name as getAngleDistCombos computed it.
C6_AveragedTable ==
    tripletsAvg # <<>> =>
        LET t == tripletsAvg[1]
            key(k) == <<t.objectA[k], t.objectB[k], t.objectC[k]>>
            of(ky) == SelectSeq(CorpusRecords, LAMBDA r : CanonKey(r) = ky)
        IN  /\ \A m, k \in DOMAIN t.objectA : key(m) = key(k) => m = k
            /\ {key(k) : k \in DOMAIN t.objectA} = {CanonKey(r) : r \in Range(CorpusRecords)}
            /\ \A k \in DOMAIN t.objectA :
                  /\ t.count[k] = Len(of(key(k)))
                  /\ \A q \in DOMAIN SixFields :
                        t[SixFields[q]][k] =
                            FDiv(FSum([m \in 1..Len(of(key(k))) |->
                                          Quantity(of(key(k))[m], SixFields[q])]),
                                 Len(of(key(k))))

\* C6 witness: an averaged entry of two or more records whose three angles differ.
C6_Witness ==
    /\ tripletsAvg # <<>>
    /\ \E k \in DOMAIN tripletsAvg[1].objectA :
          /\ tripletsAvg[1].count[k] >= 2
          /\ tripletsAvg[1].angleBAC[k] # tripletsAvg[1].angleOAB[k]
          /\ tripletsAvg[1].angleOAB[k] # tripletsAvg[1].angleOAC[k]

\* C7: in sampling mode every entry of the relation table has count 1 and is
\* one observation: its six fields are the quantities of the same names that
\* getAngleDistCombos computed for one record of that key.
C7_SampledIsObservation ==
    (pc = "permute" /\ method = "sampling") =>
        /\ DOMAIN dictionary = {CanonKey(r) : r \in Range(CorpusRecords)}
        /\ \A ky \in DOMAIN dictionary :
              /\ dictionary[ky][7] = 1
              /\ \E r \in Range(CorpusRecords) :
                    /\ CanonKey(r) = ky
                    /\ \A q \in DOMAIN SixFields : dictionary[ky][q] = Quantity(r, SixFields[q])

\* every order of a sequence
Reordered(sq) == {[k \in DOMAIN sq |-> sq[p[k]]] : p \in Permutations(DOMAIN sq)}

\* the corpora that hold the records of c with the frames in another order
\* and the rows of each frame in another order
Reorderings(c) ==
    { c2 \in [Frames -> UNION {Reordered(c[f]) : f \in Frames}] :
        \E sigma \in Permutations(Frames) : \A f \in Frames : c2[sigma[f]] \in Reordered(c[f]) }

\* what averageTriplets computes from the exported files of a corpus
AveragedFrom(c) == averageOf([f \in Frames |-> exportCsv(c[f])])

\* C8: the table averageTriplets produces does not depend on the order of the
\* files or of the rows in a file: any reordering of the corpus gives the
\* identical set of (key, six means, count) entries.
C8_OrderIndependent ==
    tripletsAvg # <<>> =>
        \A c2 \in Reorderings(combos) :
            TableEntries(AveragedFrom(c2)) = TableEntries(tripletsAvg[1])

\* C9: averaging and sampling key the table by the same canonical key: in
\* either mode the loaded table's keys are the canonical keys of the corpus,
\* the two written tables have equal key sets, and records that differ only
\* in a disambiguator fall under one key.
C9_SameCanonicalKeys ==
    LET canon == {CanonKey(r) : r \in Range(CorpusRecords)}
    IN  /\ (pc = "permute" /\ method \in {"averaging", "sampling"}) =>
              DOMAIN dictionary = canon
        /\ tripletsAvg # <<>> =>
              {e.key : e \in TableEntries(tripletsAvg[1])} = canon
        /\ tripletsCsv # <<>> =>
              {<<r[1], r[2], r[3]>> : r \in Range(tripletsCsv[1].rows)} = canon

\* C9 witness: a table loaded in each mode from a corpus in which two records
\* differ only in a disambiguator.
C9_Witness ==
    /\ pc = "permute"
    /\ method = "sampling"
    /\ tripletsAvg # <<>>
    /\ tripletsCsv # <<>>
    /\ \E r1, r2 \in Range(CorpusRecords) :
          /\ CanonKey(r1) = CanonKey(r2)
          /\ <<r1[1], r1[2], r1[3]>> # <<r2[1], r2[2], r2[3]>>
    /\ Cardinality(DOMAIN dictionary) = 2

\* the header the schema names, in its order, with no blank in it
SchemaHeader ==
    <<"objectA", "objectB", "objectC", "distanceAB", "distanceAC", "distanceAO",
      "angleOAB", "angleOAC", "angleBAC">>

\* C10: a file as Frame.export writes it has exactly the header
\* objectA,objectB,objectC,distanceAB,distanceAC,distanceAO,angleOAB,angleOAC,angleBAC
\* and every column of every row holds the quantity its header names.
C10_ExportSchema ==
    lastCall = "none" =>
        \A f \in DOMAIN files :
            /\ files[f].columns = [k \in DOMAIN SchemaHeader |-> [lead |-> 0, name |-> SchemaHeader[k]]]
            /\ Len(files[f].rows) = Len(combos[f])
            /\ \A k \in DOMAIN files[f].rows : \A m \in DOMAIN files[f].columns :
                  files[f].rows[k][m] = Quantity(combos[f][k], files[f].columns[m].name)

-----------------------------------------------------------------------------
(* One Frame of collect_data.py: calculateCentroids, getAngleDistCombos    *)
(* and drawPolygons, in the order processJSON calls them (lines 499-502).  *)
(* A polygon name is str(Object1.getName()), "['tv stand', '1']": here the *)
(* pair of the label's words and the identifier, << <<"tv","stand">>, "1">>.*)
(* polygons is the dict in insertion order: a sequence of                  *)
(* [name, coords, pts3d], coords the vertices (x, y) and pts3d the valid   *)
(* 3D points that lines 107-118 find inside the polygon's mask (the mask   *)
(* is matplotlib's and the points are the depth map's).  A quotient p/q of *)
(* two numbers is held as <<p, q>>.                                        *)

\* Frame.width and Frame.height (lines 44-45)
width  == 4
height == 3

\* np.arccos of 0/0 (lines 156-163): not a number
NaN == 1000

\* lines 104-105: the vertices inside the image
inBounds(c) == c[1] < width /\ c[2] < height /\ c[1] >= 0 /\ c[2] >= 0

RECURSIVE sumOf(_)
sumOf(values) == IF values = <<>> THEN 0 ELSE Head(values) + sumOf(Tail(values))

\* lines 96-98: the 2D centroid of the vertices
label2D(coords) ==
    << <<sumOf([k \in DOMAIN coords |-> coords[k][1]]), Len(coords)>>,
       <<sumOf([k \in DOMAIN coords |-> coords[k][2]]), Len(coords)>> >>

\* lines 119-128: the mean of the 3D points (the points used here have means
\* that are whole numbers)
centroid3D(pts3d) ==
    [d \in 1..3 |-> sumOf([k \in DOMAIN pts3d |-> pts3d[k][d]]) \div Len(pts3d)]

\* lines 105-106 left out: a polygon with points gets a centroid wherever its
\* vertices are
hasCentroidAnywhere(poly) == poly.pts3d # <<>>

\* lines 103-128: whether the polygon gets a 3D centroid
hasCentroid(poly) ==
    /\ SelectSeq(poly.coords, inBounds) # <<>>
    /\ poly.pts3d # <<>>

\* np.dot and np.linalg.norm (squared), on vectors of whole numbers
Minus(P, Q) == [d \in 1..3 |-> P[d] - Q[d]]
Dot(u, v) == u[1] * v[1] + u[2] * v[2] + u[3] * v[3]

\* np.linalg.norm, in tenths: 1.0 is 10
norm(v) == Sqrt(100 * Dot(v, v))

\* np.degrees(np.arccos(np.dot(u, v) / (norm(u) * norm(v)))), lines 156-163,
\* for the angles that are multiples of 15 between vectors of whole numbers;
\* a vector of length zero gives 0/0, and arccos of that is not a number
angle(u, v) ==
    LET q == Dot(u, u) * Dot(v, v)
        c == 4 * Dot(u, v) * Dot(u, v)
        acute == Dot(u, v) > 0
    IN  IF q = 0 THEN NaN
        ELSE CASE c = 0     -> 90
               [] c = q     -> IF acute THEN 60 ELSE 120
               [] c = 2 * q -> IF acute THEN 45 ELSE 135
               [] c = 3 * q -> IF acute THEN 30 ELSE 150
               [] c = 4 * q -> IF acute THEN 0 ELSE 180

\* lines 165-170: "['tv stand', '1']" becomes tv_stand_1
recordName(name) == Append(name[1], name[2])

\* lines 137-142 with combinations(names, 3) in place of the permutations
triplesUnordered(names) ==
    LET n == Len(names)
        idx == {t \in (1..n) \X (1..n) \X (1..n) : t[1] < t[2] /\ t[2] < t[3]}
        before(t, u) == \/ t[1] < u[1]
                        \/ t[1] = u[1] /\ t[2] < u[2]
                        \/ t[1] = u[1] /\ t[2] = u[2] /\ t[3] < u[3]
        at(k) == CHOOSE t \in idx : Cardinality({u \in idx : before(u, t)}) = k - 1
    IN  [k \in 1..Cardinality(idx) |-> <<names[at(k)[1]], names[at(k)[2]], names[at(k)[3]]>>]

\* lines 137-142: permutations(names, 3), in the order of itertools: the
\* first index slowest, each later index running over the indices not yet used
triples(names) ==
    LET n == Len(names)
        second(a, r) == IF r < a THEN r ELSE r + 1
        third(a, b, r) ==
            LET lo == IF a < b THEN a ELSE b
                hi == IF a < b THEN b ELSE a
            IN  IF r < lo THEN r ELSE IF r + 1 < hi THEN r + 1 ELSE r + 2
        at(k) ==
            LET first == ((k - 1) \div ((n - 1) * (n - 2))) + 1
                rest == (k - 1) % ((n - 1) * (n - 2))
                nxt == second(first, (rest \div (n - 2)) + 1)
            IN  <<first, nxt, third(first, nxt, (rest % (n - 2)) + 1)>>
    IN  [k \in 1..(IF n < 3 THEN 0 ELSE n * (n - 1) * (n - 2)) |->
            <<names[at(k)[1]], names[at(k)[2]], names[at(k)[3]]>>]

\* lines 144-172 for one combo: the record appended to self.combos
comboRecord(combo, cen) ==
    LET A == cen[combo[1]]
        B == cen[combo[2]]
        C == cen[combo[3]]
        O == <<0, 0, 0>>
        BA == Minus(B, A)
        CA == Minus(C, A)
        OA == Minus(O, A)
    IN  << recordName(combo[1]), recordName(combo[2]), recordName(combo[3]),
           norm(Minus(A, B)), norm(Minus(A, C)), norm(Minus(A, O)),
           angle(BA, CA), angle(OA, BA), angle(OA, CA) >>

\* the polygons of a frame: at most MaxPolygons objects
MaxPolygons == 4

NamePool ==
    << << <<"chair">>, "1" >>, << <<"chair">>, "2" >>, << <<"tv", "stand">>, "1" >>,
       << <<"lamp">>, "None" >>, << <<"desk">>, "1" >> >>

\* vertices inside the image, outside it (x < 0, x = width, y = height) and both
CoordsInside  == << <<1, 1>>, <<2, 1>>, <<2, 2>> >>
CoordsOutside == << <<-1, 1>>, <<4, 1>>, <<1, 3>> >>
CoordsAcross  == << <<3, 2>>, <<7, 9>> >>

PolygonPool ==
    { [coords |-> CoordsOutside, pts3d |-> << <<1, 0, 0>> >>],
      [coords |-> CoordsInside,  pts3d |-> << >>],
      [coords |-> CoordsInside,  pts3d |-> << <<0, 0, 0>> >>],
      [coords |-> CoordsAcross,  pts3d |-> << <<1, 0, 0>> >>],
      [coords |-> CoordsInside,  pts3d |-> << <<0, 0, 0>>, <<0, 2, 0>> >>],
      [coords |-> CoordsInside,  pts3d |-> << <<1, 1, 0>>, <<1, 1, 0>> >>] }

\* where the sensor is, by the extrinsics of the frame (line 460)
Origins == { <<0, 0, 0>>, <<0, 0, 2>> }

\* a frame after update (line 499), before calculateCentroids
InitFrame ==
    /\ \E n \in 0..MaxPolygons : \E pick \in [1..n -> PolygonPool] :
           polygons = [k \in 1..n |->
                          [name |-> NamePool[k], coords |-> pick[k].coords, pts3d |-> pick[k].pts3d]]
    /\ origin \in Origins
    /\ labels = EmptyMap
    /\ centroids = EmptyMap
    /\ selfCombos = <<>>
    /\ errorLog = <<>>
    /\ pc = "calculateCentroids"
    /\ objects = <<>>
    /\ method = "none"
    /\ dictionary = EmptyMap
    /\ SolverStart
    /\ NoFiles
    /\ NoCall
    /\ pointDistances = EmptyMap
    /\ NoRegistry
    /\ objectSizes = <<>>

\* Frame.calculateCentroids, lines 89-131
CalculateCentroids ==
    /\ pc = "calculateCentroids"
    /\ labels' = [nm \in {polygons[k].name : k \in DOMAIN polygons} |->
                     label2D((CHOOSE q \in Range(polygons) : q.name = nm).coords)]
    /\ centroids' = [nm \in {polygons[k].name : k \in {m \in DOMAIN polygons : hasCentroid(polygons[m])}} |->
                        centroid3D((CHOOSE q \in Range(polygons) : q.name = nm).pts3d)]
    /\ pc' = "getAngleDistCombos"
    /\ UNCHANGED <<polygons, origin, selfCombos, errorLog, objects, method, dictionary,
                   objMix, i, objs, good, enoughData, d_ab, triplets, finalCoords, j,
                   outcome, fileVars, callVars, sizeVars, registryVars>>

\* Frame.getAngleDistCombos, lines 133-174
GetAngleDistCombos ==
    /\ pc = "getAngleDistCombos"
    /\ LET names == SelectSeq([k \in DOMAIN polygons |-> polygons[k].name],
                              LAMBDA nm : nm \in DOMAIN centroids)
           combos3 == triples(names)
       IN  selfCombos' = selfCombos \o [k \in DOMAIN combos3 |-> comboRecord(combos3[k], centroids)]
    /\ pc' = "drawPolygons"
    /\ UNCHANGED <<polygons, origin, labels, centroids, errorLog, objects, method, dictionary,
                   objMix, i, objs, good, enoughData, d_ab, triplets, finalCoords, j,
                   outcome, fileVars, callVars, sizeVars, registryVars>>

\* Frame.drawPolygons, lines 176-204, on the image update made (line 181 is
\* false): one line of error.log for every label without a 3D centroid
DrawPolygons ==
    /\ pc = "drawPolygons"
    /\ errorLog' = errorLog \o SelectSeq([k \in DOMAIN polygons |-> polygons[k].name],
                                         LAMBDA nm : nm \in DOMAIN labels /\ nm \notin DOMAIN centroids)
    /\ pc' = "done"
    /\ UNCHANGED <<polygons, origin, labels, centroids, selfCombos, objects, method, dictionary,
                   objMix, i, objs, good, enoughData, d_ab, triplets, finalCoords, j,
                   outcome, fileVars, callVars, sizeVars, registryVars>>

NextFrame == CalculateCentroids \/ GetAngleDistCombos \/ DrawPolygons

SpecFrame == InitFrame /\ [][NextFrame]_vars

-----------------------------------------------------------------------------
(* Claims about one frame (SpecFrame).                                     *)

\* getAngleDistCombos has run
CombosDone == pc \in {"drawPolygons", "done"}

\* the ordered triples of three distinct objects that have a 3D centroid
OrderedTriples ==
    {t \in (DOMAIN centroids) \X (DOMAIN centroids) \X (DOMAIN centroids) :
        t[1] # t[2] /\ t[1] # t[3] /\ t[2] # t[3]}

\* one of B-A, C-A, O-A has length zero: two centroids coincide or A is at the
\* point the extractor takes for the sensor, or at the sensor itself
Degenerate(t) ==
    \/ centroids[t[1]] = centroids[t[2]]
    \/ centroids[t[1]] = centroids[t[3]]
    \/ centroids[t[1]] = <<0, 0, 0>>
    \/ centroids[t[1]] = origin

\* the name of an object in a record: the words of the label, then the identifier
WrittenName(nm) == nm[1] \o <<nm[2]>>

\* the records of self.combos for an ordered triple
RecordsOf(t) ==
    {k \in DOMAIN selfCombos :
        /\ selfCombos[k][1] = WrittenName(t[1])
        /\ selfCombos[k][2] = WrittenName(t[2])
        /\ selfCombos[k][3] = WrittenName(t[3])}

\* C11: getAngleDistCombos leaves exactly one record for every ordered triple
\* of three distinct objects with a centroid whose vectors are not degenerate,
\* n(n-1)(n-2) records when no triple is degenerate, (A,B,C) and (B,A,C) being
\* two records, and none for a frame with fewer than three centroids.
C11_OnePerOrderedTriple ==
    CombosDone =>
        LET n == Cardinality(DOMAIN centroids)
        IN  /\ \A t \in OrderedTriples : ~Degenerate(t) => Cardinality(RecordsOf(t)) = 1
            /\ (\A t \in OrderedTriples : ~Degenerate(t)) => Len(selfCombos) = n * (n - 1) * (n - 2)
            /\ \A t \in OrderedTriples :
                  (~Degenerate(t) /\ ~Degenerate(<<t[2], t[1], t[3]>>)) =>
                      RecordsOf(t) \cap RecordsOf(<<t[2], t[1], t[3]>>) = {}
            /\ n < 3 => selfCombos = <<>>
            /\ \A k \in DOMAIN selfCombos : \E t \in OrderedTriples :
                  /\ selfCombos[k][1] = WrittenName(t[1])
                  /\ selfCombos[k][2] = WrittenName(t[2])
                  /\ selfCombos[k][3] = WrittenName(t[3])

\* C11 witness: three centroids, no triple degenerate, six records, those of
\* (A,B,C) and (B,A,C) among them.
C11_Witness ==
    /\ CombosDone
    /\ Cardinality(DOMAIN centroids) = 3
    /\ \A t \in OrderedTriples : ~Degenerate(t)
    /\ Len(selfCombos) = 6
    /\ \E t \in OrderedTriples : RecordsOf(t) # RecordsOf(<<t[2], t[1], t[3]>>)

\* C12: a triple with a vector of length zero leaves no record, and the other
\* triples of the frame still leave theirs.
C12_DegenerateSkipped ==
    CombosDone =>
        \A t \in OrderedTriples :
            IF Degenerate(t) THEN RecordsOf(t) = {} ELSE Cardinality(RecordsOf(t)) = 1

\* C13: every record of self.combos has its three angles in [0, 180] and its
\* three distances at least 0; none has an angle that is not a number.
C13_RecordsInRange ==
    \A k \in DOMAIN selfCombos :
        /\ \A a \in 7..9 : selfCombos[k][a] # NaN /\ 0 <= selfCombos[k][a] /\ selfCombos[k][a] <= 180
        /\ \A d \in 4..6 : selfCombos[k][d] >= 0

\* C14: distAO of a record is the distance from A to the sensor of the frame;
\* with A=(0,0,0), B=(1,0,0), C=(0,1,0) and the sensor at (0,0,2) the record
\* of (A,B,C) has distAB = 1.0, distAC = 1.0, distAO = 2.0 and angleBAC = 90.
C14_DistanceToSensor ==
    CombosDone =>
        \A t \in OrderedTriples : \A k \in RecordsOf(t) :
            /\ selfCombos[k][6] = Sqrt(100 * Dot(Minus(centroids[t[1]], origin),
                                                 Minus(centroids[t[1]], origin)))
            /\ ( /\ centroids[t[1]] = <<0, 0, 0>>
                 /\ centroids[t[2]] = <<1, 0, 0>>
                 /\ centroids[t[3]] = <<0, 1, 0>>
                 /\ origin = <<0, 0, 2>> ) =>
                   /\ selfCombos[k][4] = 10
                   /\ selfCombos[k][5] = 10
                   /\ selfCombos[k][6] = 20
                   /\ selfCombos[k][7] = 90

\* a polygon for which no 3D centroid can be computed: no vertex inside the
\* image, or no valid 3D point inside the mask
NoCentroidFor(poly) ==
    \/ \A k \in DOMAIN poly.coords :
          ~(0 <= poly.coords[k][1] /\ poly.coords[k][1] < width /\
            0 <= poly.coords[k][2] /\ poly.coords[k][2] < height)
    \/ poly.pts3d = <<>>

-----------------------------------------------------------------------------
(* approximateObjectSizes, prepare_data.py:141-247.  pointDistances is     *)
(* what lines 164-194 collect from the .3d files: in the order of the      *)
(* files, the entries [name, dist] of each file's dict distances, name a   *)
(* polygon name as in a Frame and dist the distances of the object's       *)
(* points from its centroid.  The distances used are multiples of 4, so    *)
(* that every median below is a whole number.                              *)

\* line 197: ast.literal_eval(obj)[0].replace(' ','_'), the label alone
newName(obj) == obj[1]

\* lines 196-201: sizes, as [order, at]: the labels in insertion order and
\* label -> all its distances
RECURSIVE mergeSizes(_, _)
mergeSizes(sz, entries) ==
    IF entries = <<>> THEN sz
    ELSE LET e  == Head(entries)
             nm == newName(e.name)
         IN  mergeSizes(IF nm \in DOMAIN sz.at
                        THEN [order |-> sz.order, at |-> [sz.at EXCEPT ![nm] = @ \o e.dist]]
                        ELSE [order |-> Append(sz.order, nm), at |-> Put(sz.at, nm, e.dist)],
                        Tail(entries))

\* pd.Series(dist).sort_values(): ascending
RECURSIVE sortAscending(_)
sortAscending(values) ==
    IF values = <<>> THEN <<>>
    ELSE LET k == CHOOSE m \in DOMAIN values : \A n \in DOMAIN values : values[m] <= values[n]
         IN  <<values[k]>> \o sortAscending(RemoveAt(values, k))

\* line 226 without the trim
untrimmed(vals) == vals

\* line 226: vals[:len(vals)-int(len(vals)/5)]
trimmed(vals) == SubSeq(vals, 1, Len(vals) - (Len(vals) \div 5))

\* Series.median and np.median of sorted values: the middle one, or the mean
\* of the two middle ones
median(vals) ==
    LET n == Len(vals)
    IN  IF n % 2 = 1 THEN vals[(n + 1) \div 2]
        ELSE (vals[n \div 2] + vals[n \div 2 + 1]) \div 2

\* lines 223-229: median_sizes[obj], the pair (median, numObjects)
medianSize(dist) == <<median(trimmed(sortAscending(dist))), Len(dist)>>

\* lines 234-245: the rows written below the header.  The diameter line 242
\* computes goes into the confidence; the row itself is obj, dist, confidence
\* (line 244), dist being the string of line 229.
sizeRows(sz) ==
    LET ms == [nm \in DOMAIN sz.at |-> medianSize(sz.at[nm])]
        maxCount == SetMax({ms[nm][2] : nm \in DOMAIN ms})
        maxDiameter == SetMax({ms[nm][1] : nm \in DOMAIN ms})
        medianDiameter == median(sortAscending([k \in DOMAIN sz.order |-> ms[sz.order[k]][1]]))
        diameter(nm) == IF ms[nm][1] > 0 THEN ms[nm][1] ELSE medianDiameter
    IN  [k \in DOMAIN sz.order |->
            LET nm == sz.order[k]
            IN  <<nm, ms[nm][1], ms[nm][2], <<ms[nm][2] * maxDiameter, maxCount * diameter(nm)>> >>]

\* the most distances collected for one polygon
MaxDistances == 5

DistancePool == {0, 4, 12}

SizeInputs ==
    { e1 \o e2 \o e3 :
        e1 \in {<<>>} \cup {<<[name |-> << <<"chair">>, "1" >>, dist |-> d]>> :
                               d \in UNION {[1..n -> DistancePool] : n \in 1..MaxDistances}},
        e2 \in {<<>>} \cup {<<[name |-> << <<"tv", "stand">>, "1" >>, dist |-> d]>> :
                               d \in {<<0>>, <<8>>, <<4, 4>>}},
        e3 \in {<<>>} \cup {<<[name |-> << <<"chair">>, "2" >>, dist |-> d]>> :
                               d \in {<<8>>}} }

InitSizes ==
    /\ pointDistances \in SizeInputs
    /\ NoRegistry
    /\ objectSizes = <<>>
    /\ pc = "approximateObjectSizes"
    /\ objects = <<>>
    /\ method = "none"
    /\ dictionary = EmptyMap
    /\ SolverStart
    /\ NoFiles
    /\ NoCall
    /\ NoFrame

\* approximateObjectSizes from line 196 on; with no object line 234 takes the
\* max of an empty list and the file is not written
ApproximateObjectSizes ==
    /\ pc = "approximateObjectSizes"
    /\ LET sz == mergeSizes([order |-> <<>>, at |-> EmptyMap], pointDistances)
       IN  IF sz.order = <<>>
           THEN /\ outcome' = "ValueError"
                /\ UNCHANGED objectSizes
           ELSE /\ outcome' = "returned"
                /\ objectSizes' = <<sizeRows(sz)>>
    /\ pc' = "done"
    /\ UNCHANGED <<registryVars, pointDistances, objects, method, dictionary, objMix, i, objs, good,
                   enoughData, d_ab, triplets, finalCoords, j, fileVars, callVars, frameVars>>

NextSizes == ApproximateObjectSizes

SpecSizes == InitSizes /\ [][NextSizes]_vars

\* all distances collected for a label, in no order
DistancesOf(nm) ==
    LET es == SelectSeq(pointDistances, LAMBDA e : e.name[1] = nm)
    IN  Flatten([k \in DOMAIN es |-> es[k].dist])

\* the value of rank r (1 = smallest) among values
Ranked(values, r) ==
    CHOOSE x \in Range(values) :
        /\ Cardinality({k \in DOMAIN values : values[k] < x}) < r
        /\ r <= Cardinality({k \in DOMAIN values : values[k] <= x})

\* the median of the m smallest of values
MedianOfSmallest(values, m) ==
    (Ranked(values, (m + 1) \div 2) + Ranked(values, m \div 2 + 1)) \div 2

C17_MedianSubstituted ==
    objectSizes # <<>> =>
        LET rows == objectSizes[1]
            computed(k) == LET ds == DistancesOf(rows[k][1])
                           IN  MedianOfSmallest(ds, Len(ds) - (Len(ds) \div 5))
            all == [k \in DOMAIN rows |-> computed(k)]
            corpusMedian == MedianOfSmallest(all, Len(all))
        IN  \A k \in DOMAIN rows : computed(k) <= 0 => rows[k][2] = corpusMedian

-----------------------------------------------------------------------------
(* A whole call of calculateCoords (SpecCall): the tables earlier runs     *)
(* left under data/ are there, the call loads the relation table by its    *)
(* method (lines 258-286) and goes on as in Spec.                          *)

\* rows of the relation table: objectA, objectB, objectC, distanceAB,
\* distanceAC, distanceAO, angleBAC, angleOAB, angleOAC, count
RowPool ==
    { <<>>,
      << <<"a", "b", "c", 4, 3, 2, 90, 90, 90, 1>> >>,
      << <<"a", "b", "c", 4, 3, 2, 90, 90, 90, 1>>, <<"a", "b", "d", 1, 4, 5, 90, 90, 90, 1>> >>,
      << <<"a", "b", "c", 2, 1, 4, 90, 90, 0, 3>>,  <<"a", "b", "d", 4, 3, 2, 90, 90, 90, 1>> >>,
      << <<"a", "b", "c", 5, 2, 3, 90, 0, 0, 1>>,   <<"a", "b", "d", 3, 2, 1, 0, 90, 90, 2>> >>,
      << <<"b", "a", "c", 1, 4, 5, 90, 90, 90, 1>>, <<"a", "b", "d", 1, 4, 5, 90, 90, 90, 1>> >> }

\* data/triplets_avg.pickle holding these rows (lines 115-135)
pickleOf(rows) ==
    [objectA    |-> [k \in DOMAIN rows |-> rows[k][1]],
     objectB    |-> [k \in DOMAIN rows |-> rows[k][2]],
     objectC    |-> [k \in DOMAIN rows |-> rows[k][3]],
     distanceAB |-> [k \in DOMAIN rows |-> rows[k][4]],
     distanceAC |-> [k \in DOMAIN rows |-> rows[k][5]],
     distanceAO |-> [k \in DOMAIN rows |-> rows[k][6]],
     angleBAC   |-> [k \in DOMAIN rows |-> rows[k][7]],
     angleOAB   |-> [k \in DOMAIN rows |-> rows[k][8]],
     angleOAC   |-> [k \in DOMAIN rows |-> rows[k][9]],
     count      |-> [k \in DOMAIN rows |-> rows[k][10]]]

\* data/triplets.csv holding these rows under the header of the frame files
\* with its names cleaned (lines 45-69, 90-91)
csvOf(rows) ==
    [columns |-> [k \in DOMAIN exportHeader |-> strip(exportHeader[k])],
     rows    |-> [k \in DOMAIN rows |-> SubSeq(rows[k], 1, 9)]]

InitCall ==
    /\ objects \in {<<"a", "b", "c">>, <<"a", "b", "c", "d">>}
    /\ \E rows \in RowPool :
          /\ tripletsAvg = <<pickleOf(rows)>>
          /\ tripletsCsv = <<csvOf(rows)>>
    /\ objectSizes \in {<<>>} \cup {<<t>> : t \in SizeTables}
    /\ combos = [f \in Frames |-> <<>>]
    /\ files = [f \in Frames |-> normalized(exportCsv(<<>>))]
    /\ lastCall = "averageTriplets"
    /\ lastError = "none"
    /\ method = "none"
    /\ dictionary = EmptyMap
    /\ pc = "call"
    /\ SolverStart
    /\ NoCall
    /\ NoFrame
    /\ pointDistances = EmptyMap
    /\ NoRegistry

CallAveraging == pc = "call" /\ LoadAveraging
CallSampling  == pc = "call" /\ LoadSampling
CallOther     == pc = "call" /\ LoadOther

NextCall == CallAveraging \/ CallSampling \/ CallOther \/ Next

SpecCall == InitCall /\ [][NextCall]_vars

\* C18: no step of a call of calculateCoords changes the persisted triplet
\* tables or the object-size table, however the call ends.
C18_TablesReadOnly ==
    [][ /\ tripletsAvg' = tripletsAvg
        /\ tripletsCsv' = tripletsCsv
        /\ objectSizes' = objectSizes ]_vars

\* C18 witness: a call that loaded its tables, the size table among them,
\* and returned a mapping.
C18_Witness ==
    /\ pc = "done"
    /\ tripletsAvg # <<>> /\ tripletsAvg[1].objectA # <<>>
    /\ objectSizes # <<>> /\ objectSizes[1] # <<>>
    /\ outcome = "returned"
    /\ "SCALE" \in DOMAIN finalCoords

\* the mapping lines 372-414 build from the local placements ts when the
\* residual point of triplet number n is number ks[n]
MappingFrom(ts, ks) ==
    LET names == {ts[n][m] : n \in DOMAIN ts, m \in 1..3}
        place(nm) ==
            IF nm = ts[1][1] THEN ts[1][4]
            ELSE IF nm = ts[1][2] THEN ts[1][5]
            ELSE IF nm = ts[1][3] THEN ts[1][6]
            ELSE LET n == CHOOSE m \in DOMAIN ts : ts[m][3] = nm
                 IN  [coordsNew |-> ks[n], triplet |-> n]
    IN  [nm \in names \cup {"CAMERA", "SCALE"} |->
            IF nm = "CAMERA" THEN ts[1][7]
            ELSE IF nm = "SCALE" THEN SetMin({ts[n][8] : n \in DOMAIN ts})
            ELSE place(nm)]

\* C19: the size table does not alter the geometry: a call that returned a
\* mapping would have returned the same mapping, from the same objects, the
\* same relation table, the same shuffle and the same numeric outcomes, with
\* any other size table.
C19_SizesDoNotAlterGeometry ==
    (outcome = "returned" /\ method \in {"averaging", "sampling"}) =>
        \A t \in SizeTables :
            LET pl == placements(good, dictionary, universalAB(dictionary, good), loadObjectSizes(t))
            IN  /\ \A k \in DOMAIN pl : pl[k].err = "none"
                /\ LET ts == [k \in DOMAIN pl |-> pl[k].triplet]
                   IN  finalCoords =
                           MappingFrom(ts, [n \in DOMAIN ts |->
                                               IF n = 1 THEN 0 ELSE finalCoords[ts[n][3]].coordsNew])

\* C19 witness: a mapping of four objects returned by a call whose size table
\* names two of them.
C19_Witness ==
    /\ outcome = "returned"
    /\ Len(objects) = 4
    /\ Cardinality(DOMAIN sizes \cap Range(objects)) = 2
    /\ DOMAIN finalCoords = Range(objects) \cup {"CAMERA", "SCALE"}

\* C20: a candidate whose key is not in the relation table is dropped with a
\* warning and no error: after an attempt the surviving triplets are exactly
\* the candidates whose key is in the table, in the order of the candidates,
\* and the warnings of the attempt are the other candidates.
C20_UnknownKeyDropped ==
    objs # <<>> =>
        LET cand == [k \in 1..(Len(objs) - 2) |-> <<objs[1], objs[2], objs[k + 2]>>]
            kept == {k \in DOMAIN cand : cand[k] \in DOMAIN dictionary}
            gone == DOMAIN cand \ kept
            nth(S, r) == CHOOSE k \in S : Cardinality({m \in S : m < k}) = r - 1
        IN  /\ Len(good) = Cardinality(kept)
            /\ \A r \in DOMAIN good : good[r] = cand[nth(kept, r)]
            /\ Len(warnings) >= Cardinality(gone)
            /\ \A r \in 1..Cardinality(gone) :
                  warnings[Len(warnings) - Cardinality(gone) + r] = cand[nth(gone, r)]
            /\ pc \in {"loop", "after"} => outcome = "running"

\* C20 witness: an attempt on four objects whose first candidate is unknown
\* and whose second is in the table.
C20_Witness ==
    /\ Len(objs) = 4
    /\ <<objs[1], objs[2], objs[3]>> \notin DOMAIN dictionary
    /\ good = << <<objs[1], objs[2], objs[4]>> >>
    /\ warnings # <<>>

-----------------------------------------------------------------------------
(* Claims about the placement and the merge of calculateCoords (Spec).     *)

\* the triplets after the first that the merge loop has gone through
Merged == IF pc \in {"merge", "done"} /\ j >= 2 THEN 2..(j - 1) ELSE {}

\* C21: for every triplet after the first the point stored for its object C
\* is the transformed C, the fifth point of the transformed set, never the
\* transformed A, B, camera or 4th point, and a point is always found, also
\* when the transformed C is within the epsilon of a base point.
C21_ResidualIsC ==
    /\ outcome # "IndexError"
    /\ \A n \in Merged : finalCoords[triplets[n][3]].coordsNew = 5
    /\ (pc = "merge" /\ j <= Len(triplets) /\ 5 \in corresp(triplets[1], triplets[j])) =>
           residual(corresp(triplets[1], triplets[j])) # 0

\* the determinant of three vectors
Det3(u, v, w) ==
    u[1] * (v[2] * w[3] - v[3] * w[2])
      - u[2] * (v[1] * w[3] - v[3] * w[1])
      + u[3] * (v[1] * w[2] - v[2] * w[1])

\* P - Q for rational points, times the two denominators
Between(P, Q) == [c \in 1..3 |-> P[1][c] * Q[2] - Q[1][c] * P[2]]

\* the 4th point of a reference frame is off the plane of its A, B and camera
OffPlane(t) ==
    LET ps == fourPoints(t)
    IN  Det3(Between(ps[2], ps[1]), Between(ps[3], ps[1]), Between(ps[4], ps[1])) # 0

\* C22: in every 4-point reference frame the synthetic 4th point lies on a
\* different plane than the triplet's A, B and camera points, so that the four
\* correspondences determine the affine transformation uniquely.
C22_FourthPointOffPlane ==
    \A n \in DOMAIN triplets : OffPlane(triplets[n])

-----------------------------------------------------------------------------
(* The object registry of collect_data.py (SpecRegistry): allObjects, the  *)
(* list kept for the whole run (line 351), as the polygon loop of          *)
(* processJSON (lines 464-477) fills it.  An Object1 is the record of its  *)
(* fields; frames holds the keys of self.frames, the locations, in the     *)
(* order they were added (the Frame lists under the keys are left out).    *)

\* the sightings of a run: at most MaxSightings polygons
MaxSightings == 4

ObjectNames == {"chair:1", "lamp"}
ObjectIDs   == 0..2
Locations   == {"scene1", "scene2"}
Colours     == {"red", "blue"}

\* Object1.__init__, lines 302-307; the colour is drawn at random
Object1(ID, name, colour) ==
    [ID |-> ID, name |-> name, colour |-> colour, frames |-> <<>>, oldIDs |-> <<>>]

\* Object1.updateID without the test of line 309
updateIDAlways(o, ID) == [o EXCEPT !.oldIDs = Append(@, o.ID), !.ID = ID]

\* Object1.updateID, lines 308-311
updateID(o, ID) ==
    [o EXCEPT !.oldIDs = IF ID # o.ID THEN Append(@, o.ID) ELSE @, !.ID = ID]

\* Object1.addFrame, lines 340-344: the key is added once
addFrame(o, location) ==
    IF location \in Range(o.frames) THEN o ELSE [o EXCEPT !.frames = Append(@, location)]

InitRegistry ==
    /\ allObjects = <<>>
    /\ sightings = <<>>
    /\ pc = "processJSON"
    /\ objects = <<>>
    /\ method = "none"
    /\ dictionary = EmptyMap
    /\ SolverStart
    /\ NoFiles
    /\ NoCall
    /\ NoFrame
    /\ pointDistances = EmptyMap
    /\ objectSizes = <<>>

\* lines 464-477 for one polygon whose object has this name and ID, in a frame
\* of this location: the first entry of that name is renumbered, or a new
\* entry is appended
Sighting ==
    /\ pc = "processJSON"
    /\ Len(sightings) < MaxSightings
    /\ \E name \in ObjectNames, ID \in ObjectIDs, location \in Locations :
          LET found == {k \in DOMAIN allObjects : allObjects[k].name = name}
          IN  /\ IF found # {}
                 THEN allObjects' =
                          [allObjects EXCEPT ![SetMin(found)] = addFrame(updateID(@, ID), location)]
                 ELSE \E colour \in Colours :
                          allObjects' = Append(allObjects, addFrame(Object1(ID, name, colour), location))
              /\ sightings' = Append(sightings, <<name, ID, location>>)
    /\ UNCHANGED <<objects, method, dictionary, objMix, i, objs, good, enoughData, d_ab,
                   triplets, finalCoords, j, outcome, pc, fileVars, callVars, frameVars,
                   sizeVars>>

NextRegistry == Sighting

SpecRegistry == InitRegistry /\ [][NextRegistry]_vars

\* the IDs under which a name was sighted, in order
IDsOf(name) ==
    LET ss == SelectSeq(sightings, LAMBDA x : x[1] = name)
    IN  [k \in DOMAIN ss |-> ss[k][2]]

\* the IDs of ids that were followed by a different ID, in order
RECURSIVE Replaced(_)
Replaced(ids) ==
    IF Len(ids) < 2 THEN <<>>
    ELSE (IF ids[1] # ids[2] THEN <<ids[1]>> ELSE <<>>) \o Replaced(Tail(ids))

\* C23: allObjects holds exactly one Object1 for every name sighted so far,
\* no entry is ever removed, the ID of an entry is the ID of the latest
\* sighting of its name, and its oldIDs are, in order, the IDs that were
\* replaced by a different ID.
C23_Registry ==
    /\ {allObjects[k].name : k \in DOMAIN allObjects} = {sightings[k][1] : k \in DOMAIN sightings}
    /\ \A k, m \in DOMAIN allObjects : allObjects[k].name = allObjects[m].name => k = m
    /\ \A k \in DOMAIN allObjects :
          LET ids == IDsOf(allObjects[k].name)
          IN  /\ allObjects[k].ID = ids[Len(ids)]
              /\ allObjects[k].oldIDs = Replaced(ids)
    /\ \A k, m \in DOMAIN allObjects :
          k < m => \E n \in DOMAIN sightings :
                      /\ sightings[n][1] = allObjects[k].name
                      /\ \A q \in 1..n : sightings[q][1] # allObjects[m].name

\* C23 witness: two objects, one of them sighted under the IDs 1, 1 and 0.
C23_Witness ==
    /\ Len(allObjects) = 2
    /\ \E k \in DOMAIN allObjects :
          /\ IDsOf(allObjects[k].name) = <<1, 1, 0>>
          /\ allObjects[k].oldIDs = <<1>>
          /\ allObjects[k].ID = 0

\* the complete candidate set of an arrangement: (A, B, x) for every x after
\* the two anchors
AllCandidates(p) == [k \in 1..(Len(p) - 2) |-> <<p[1], p[2], p[k + 2]>>]

\* C25: an attempt accepted for three or more distinct requested objects
\* dropped no candidate: its surviving set is the complete candidate set; an
\* attempt with a missing key is discarded, and a returned mapping places
\* every requested object.
C25_AcceptedDropsNothing ==
    (Len(objects) >= 3 /\ objs # <<>>) =>
        /\ (pc # "loop" /\ enoughData) => good = AllCandidates(objs)
        /\ (\E k \in 1..(Len(objs) - 2) : AllCandidates(objs)[k] \notin DOMAIN dictionary) =>
              /\ ~enoughData
              /\ pc \in {"loop", "after", "done"}
              /\ finalCoords = EmptyMap
        /\ outcome = "returned" => Range(objects) \subseteq DOMAIN finalCoords

\* C25 witness: four objects, an attempt discarded for a missing key, then an
\* attempt accepted with both of its candidates.
C25_Witness ==
    /\ pc = "after"
    /\ enoughData
    /\ Len(objs) = 4
    /\ Len(good) = 2
    /\ warnings # <<>>

\* an entry of the relation table within the TripletRecord invariant
ValidEntry(data) ==
    /\ \A k \in 1..3 : data[k] >= 0
    /\ \A k \in 4..6 : 0 <= data[k] /\ data[k] <= 180

\* C26: for every table entry within the TripletRecord invariant, angleBAC = 0
\* and inconsistent averaged entries included, the local placement completes
\* with points for C and the camera; it never ends in a division by zero or
\* the square root of a negative number.
C26_PlacementCompletes ==
    (\A ky \in DOMAIN dictionary : ValidEntry(dictionary[ky])) =>
        /\ outcome \notin {"ZeroDivisionError", "ValueError"}
        /\ pc \in {"base", "merge"} => Len(triplets) = Len(good)

-----------------------------------------------------------------------------
(* The permutation search under fair scheduling (SpecSearch).  The program *)
(* is sequential: a step that can be taken is taken.  The tables hold      *)
(* entries of one shape, so that the search is all that differs.           *)

SearchTables == UNION {[P -> {<<4, 3, 2, 90, 90, 90, 1>>}] : P \in SUBSET KeyPool}

InitSearch ==
    /\ objects \in ObjectLists
    /\ method = "averaging"
    /\ dictionary \in SearchTables
    /\ pc = "permute"
    /\ SolverStart
    /\ NoFiles
    /\ NoCall
    /\ NoFrame
    /\ pointDistances = EmptyMap
    /\ NoRegistry
    /\ objectSizes = << << <<"a", 4, 2, <<8, 8>> >>, <<"c", 8, 1, <<8, 16>> >> >> >>

\* an attempt of the loop that can be made is made, and so is the exit after it
SearchFairness == WF_vars(Attempt) /\ WF_vars(Exit)

SpecSearch == InitSearch /\ [][Next]_vars /\ SearchFairness

RECURSIVE Factorial(_)
Factorial(n) == IF n = 0 THEN 1 ELSE n * Factorial(n - 1)

\* the loop accepts the arrangement p: it has three objects or more and the
\* key of every candidate is in the table
Accepts(p) == Len(p) >= 3 /\ Covering(p, dictionary)

\* the search so far: N! permutations, no two alike, attempted in their order
SearchInOrder ==
    pc # "permute" =>
        /\ Len(objMix) = Factorial(Len(objects))
        /\ \A k, m \in DOMAIN objMix : objMix[k] = objMix[m] => k = m
        /\ 1 <= i /\ i <= Len(objMix) + 1
        /\ \A k \in 1..(i - 1) : ~Accepts(objMix[k])
        /\ pc # "loop" =>
              IF enoughData
              THEN i <= Len(objMix) /\ objs = objMix[i] /\ Accepts(objs) /\ outcome # "exit1"
              ELSE i = Len(objMix) + 1 /\ (pc = "done" => outcome = "exit1")

\* C24: the retry loop always terminates: for N requested objects it makes at
\* most N! attempts, tries no permutation twice, and ends with the first
\* permutation that covers or, after the last one, with the fatal outcome.
C24_SearchTerminates ==
    /\ []SearchInOrder
    /\ (pc = "loop") ~> (pc = "after")
    /\ (pc = "after" /\ ~enoughData) ~> (outcome = "exit1")

\* C24 witness: a search over four objects accepted at its third attempt or later.
C24_Witness ==
    /\ pc = "after"
    /\ Len(objects) = 4
    /\ enoughData
    /\ i >= 3

-----------------------------------------------------------------------------
(* Claims about the order of the aggregation functions (SpecAgg).          *)

\* the per-scene files as Frame.export wrote them
FreshFiles == [f \in Frames |-> exportCsv(combos[f])]

\* C27: gatherTriplets and averageTriplets run in either order on files
\* freshly written by Frame.export: each succeeds, averageTriplets leaves the
\* records of the files as they are, and neither table depends on which of
\* the two ran first.
C27_EitherOrder ==
    /\ lastCall \in {"gatherTriplets", "averageTriplets"} => lastError = "none"
    /\ \A f \in DOMAIN files : files[f].rows = combos[f]
    /\ tripletsAvg # <<>> => tripletsAvg[1] = averageOf(FreshFiles)
    /\ tripletsCsv # <<>> =>
          tripletsCsv[1].rows = gatherOf([f \in Frames |-> normalized(FreshFiles[f])]).rows

=============================================================================
